---- MODULE Spec2Model ----
(***************************************************************************)
(* deepsearch-rag: the ingestion pipeline (app/rag.py), the lazily         *)
(* initialised ChromaManager, and the request handlers of app/api/router.py*)
(* that drive them, run by one asyncio event loop.                         *)
(*                                                                         *)
(* A task is a coroutine of the event loop (the lifespan startup or one    *)
(* request handler).  A task that is executing synchronous code keeps the  *)
(* loop until its next await; the awaits of the code are the only places   *)
(* where another task can run.                                             *)
(*                                                                         *)
(* The Redis cache of app/cache.py and extract_text_from_pdf of            *)
(* app/utils.py are modelled on their own, under SpecCache and SpecPdf.    *)
(***************************************************************************)
EXTENDS Integers, Sequences, FiniteSets, TLC

\* ------------------------------------------------------------------ bounds
MaxRequests == 1   \* requests a worker task serves after startup
MaxFiles    == 2   \* parts of one upload request
MaxFailures == 1   \* calls the backend fails to answer
MaxTime     == 2   \* seconds the Redis clock advances
MaxTtl      == 2   \* ttl of a cache entry, in seconds
MaxPages    == 3   \* pages of a PDF

\* ------------------------------------------------------------------ values
None    == "None"
Corrupt == "corrupt"          \* bytes that are no document of any format
Tasks   == {"t1", "t2"}

\* File names of the model.  NoName is a part whose basename is empty.
NoName    == ""
FileNames == {"a.txt", "b.PDF", "c.exe"}

\* Text carried by a stored document: empty, whitespace only, a short
\* passage, and a passage longer than one chunk.
Texts    == {"", "ws", "one", "two"}
Contents == Texts \cup {Corrupt}

\* The parts an upload request can carry (filename, content).
Parts ==
  {[filename |-> "a.txt", content |-> c] : c \in {"", "ws", "one", "two"}}
    \cup {[filename |-> "b.PDF", content |-> c] : c \in {Corrupt, "one"}}
    \cup {[filename |-> "c.exe", content |-> "one"],
          [filename |-> NoName, content |-> "one"]}

RECURSIVE SeqsUpTo(_, _)
SeqsUpTo(S, n) ==
  IF n = 0 THEN {<<>>}
  ELSE LET shorter == SeqsUpTo(S, n - 1)
       IN  shorter \cup {Append(s, x) : s \in {q \in shorter : Len(q) = n - 1}, x \in S}

Range(s) == {s[i] : i \in 1..Len(s)}

\* ------------------------------------------------------------------ pure functions
\* os.path.splitext(filename)[1]
splitext(filename) ==
  CASE filename = "a.txt" -> ".txt"
    [] filename = "b.PDF" -> ".PDF"
    [] filename = "c.exe" -> ".exe"
    [] OTHER -> ""

\* str.lower() on the extensions of the model
lower(ext) == IF ext = ".PDF" THEN ".pdf" ELSE ext

supported_ext == {".pdf", ".txt", ".md", ".docx"}

Raised == [ok |-> FALSE, val |-> None]
Value(v) == [ok |-> TRUE, val |-> v]

\* extract_text_from_pdf: PdfReader(pdf_path) is outside the try block, so a
\* file that is no PDF raises; a readable PDF yields its pages' text.
extract_text_from_pdf(content) ==
  IF content = Corrupt THEN Raised
  ELSE IF content = "" THEN Value("") ELSE Value(content)

\* extract_text_from_docx: every failure is logged and yields "".
extract_text_from_docx(content) ==
  IF content = Corrupt THEN Value("") ELSE Value(content)

\* extract_text_from_path: dispatch on the lower-cased extension; txt/md are
\* read as UTF-8 and, on a decode error, as cp1251 with errors ignored, which
\* turns undecodable bytes into some non-empty text.
extract_text_from_path(filename, content) ==
  LET ext == lower(splitext(filename))
  IN  IF content = None THEN Raised          \* open() of a missing file
      ELSE IF ext = ".pdf" THEN extract_text_from_pdf(content)
      ELSE IF ext = ".docx" THEN extract_text_from_docx(content)
      ELSE IF ext \in {".txt", ".md"}
           THEN IF content = Corrupt THEN Value("garbage") ELSE Value(content)
      ELSE Raised                            \* ValueError: unsupported format

\* Number of chunks RecursiveCharacterTextSplitter(500, 50) makes of a text:
\* none of empty or whitespace-only text, one of a short passage, two of the
\* 600-character passage.
NumChunks(text) ==
  CASE text \in {"", "ws"} -> 0
    [] text = "two" -> 2
    [] OTHER -> 1

\* chunk_text: one record per chunk, each carrying the source name.
chunk_text(text, source_name) ==
  [i \in 1..NumChunks(text) |-> [text |-> <<text, i>>, source |-> source_name]]


\* ------------------------------------------------------------------ state
VARIABLES
  disk,               \* documents directory: filename -> content, None if absent
  dirExists,          \* os.path.isdir(DOCUMENTS_PATH)
  index,              \* entries of the remote collection: [id, source, text]
  client,             \* ChromaManager._client: 0 is None, else the client made
  collection,         \* ChromaManager._collection: 0 is None, else the handle made
  clientsCreated,     \* AsyncHttpClient connections made so far
  collectionsCreated, \* collection handles made so far
  nextId,             \* uuid4 values drawn so far
  app,                \* "starting", "serving" or "failed"
  started,            \* per task, the requests it has accepted so far
  failures,           \* backend calls that have failed so far
  pc,                 \* per task, the place its coroutine is at
  op,                 \* per task, the handler it runs
  loc,                \* per task, the handler's local variables
  call,               \* per task, the ChromaManager call in progress
  res,                \* per task, the outcome of its last await
  hist,               \* per task, what its handler has done so far
  ret,                \* per task, what ingest_documents returned
  resp,               \* per task, the HTTP response
  cache,              \* the Redis server behind app/cache.py and its last calls
  pdf                 \* a PdfReader and what extract_text_from_pdf made of it

vars == <<disk, dirExists, index, client, collection, clientsCreated,
          collectionsCreated, nextId, app, started, failures,
          pc, op, loc, call, res, hist, ret, resp, cache, pdf>>

\* What the ingestion pipeline and the request handlers of the router never
\* touch: the cache (ask_question fails before it reaches it) and the reader
\* of a single PDF.
aside == <<cache, pdf>>

globals == <<disk, dirExists, index, client, collection, clientsCreated,
             collectionsCreated, nextId, app, started, failures>>

\* Places where a coroutine is suspended in an await.
AwaitPcs == {"connect", "getcoll", "rpc", "up_read"}

\* The task holds the event loop: it is in synchronous code.
Running(t) == pc[t] \notin (AwaitPcs \cup {"idle", "done"})
LoopFree   == \A t \in Tasks : ~Running(t)
AllIdle    == \A t \in Tasks : pc[t] = "idle"

NoPart == [filename |-> NoName, content |-> None]

InitLoc ==
  [force |-> FALSE, file_paths |-> <<>>, parts |-> 0, nparts |-> 0, part |-> NoPart,
   saved_paths |-> <<>>,
   candidates |-> <<>>, processed_files |-> <<>>, all_chunks |-> <<>>,
   sources |-> <<>>, texts |-> <<>>, metadatas |-> <<>>, ids |-> <<>>,
   todo |-> {}, filename |-> None, question |-> None]

InitHist ==
  [calls |-> <<>>, failed |-> {}, extracted |-> <<>>, added |-> <<>>,
   newIds |-> {}, count |-> -1, srcs |-> {},
   before |-> {}, scanned |-> [f \in FileNames |-> None], existed |-> FALSE,
   removed |-> FALSE]

NoCall == [method |-> None, cont |-> None, source |-> None]
NoRet  == [state |-> "none", chunks |-> 0, docs |-> 0, names |-> <<>>]
NoResp == [status |-> 0, detail |-> None, added_chunks |-> 0,
           documents_count |-> 0, processed_files |-> <<>>]

Returned(c, d, names) == [state |-> "returned", chunks |-> c, docs |-> d, names |-> names]
RaisedRet == [state |-> "raised", chunks |-> 0, docs |-> 0, names |-> <<>>]

\* An entry left in the collection by an earlier process.
OldEntry == [id |-> 0, source |-> "a.txt", text |-> <<"old", 1>>]
OldPdfEntry == [id |-> -1, source |-> "b.PDF", text |-> <<"old", 1>>]

NoFiles == [f \in FileNames |-> None]

InitDisks ==
  {NoFiles,
   [NoFiles EXCEPT !["a.txt"] = "one"],
   [NoFiles EXCEPT !["a.txt"] = "two", !["b.PDF"] = Corrupt]}

\* ------------------------------------------------------------------ cache values
\* Python values, by type: s is the scalar a None, an int or a str stands for,
\* items the members of a list or a tuple.
PyNone  == [type |-> "NoneType", s |-> "None", items |-> <<>>]
PyInt   == [type |-> "int", s |-> "1", items |-> <<>>]
PyStr   == [type |-> "str", s |-> "x", items |-> <<>>]
PyList  == [type |-> "list", s |-> "", items |-> <<PyInt>>]
PyTuple == [type |-> "tuple", s |-> "", items |-> <<PyInt>>]

\* The values of the dictionaries of the model: a scalar, a list, a tuple.
PyValues == {PyStr, PyList, PyTuple}

\* Dictionary keys json.dumps accepts: a str and an int.
PyKeys == {[type |-> "str", s |-> "a"], [type |-> "int", s |-> "1"]}

\* The dictionaries json.dumps accepts: a dict is the set of its items.
Dicts ==
  UNION {{{[key |-> k, value |-> f[k]] : k \in K} : f \in [K -> PyValues]} :
           K \in SUBSET PyKeys}

\* json.dumps of a value: None is null, an int a number, a str a string, a
\* list and a tuple alike an array.
json_dumps_value(v) ==
  CASE v.type = "NoneType" -> [kind |-> "null", s |-> "null", items |-> <<>>]
    [] v.type = "int" -> [kind |-> "number", s |-> v.s, items |-> <<>>]
    [] v.type = "str" -> [kind |-> "string", s |-> v.s, items |-> <<>>]
    [] OTHER ->
         [kind |-> "array", s |-> "",
          items |-> [i \in 1..Len(v.items) |->
                       [kind |-> "number", s |-> v.items[i].s, items |-> <<>>]]]

\* json.dumps of a dict: an object whose member names are strings; an int key
\* is written as its decimal string.
json_dumps(d) ==
  {[name |-> m.key.s, value |-> json_dumps_value(m.value)] : m \in d}

\* json.loads of a value: an array is read as a list.
json_loads_value(j) ==
  CASE j.kind = "null" -> PyNone
    [] j.kind = "number" -> [type |-> "int", s |-> j.s, items |-> <<>>]
    [] j.kind = "string" -> [type |-> "str", s |-> j.s, items |-> <<>>]
    [] OTHER ->
         [type |-> "list", s |-> "",
          items |-> [i \in 1..Len(j.items) |->
                       [type |-> "int", s |-> j.items[i].s, items |-> <<>>]]]

\* json.loads of an object: a dict whose keys are str.
json_loads(text) ==
  {[key |-> [type |-> "str", s |-> m.name], value |-> json_loads_value(m.value)] :
     m \in text}

CacheKeys == {"k"}

\* A key Redis does not hold, what redis_client.get answers for it, and the
\* calls before any was made.
NoEntry  == [present |-> FALSE, text |-> {}, expires |-> 0]
NoPut    == [called |-> FALSE, ok |-> FALSE, value |-> {}, ttl |-> 0, at |-> 0]
NoGot    == [called |-> FALSE, key |-> "k", ok |-> FALSE, hit |-> FALSE, value |-> {}]

\* The cache before its first call.
EmptyCache ==
  [store |-> [k \in CacheKeys |-> NoEntry], now |-> 0,
   put |-> [k \in CacheKeys |-> NoPut], got |-> NoGot]

\* ------------------------------------------------------------------ PDF values
\* What page.extract_text() does for a page: it returns a text, returns an
\* empty string, or raises.
PageRaises == "raises"
Pages      == {"A", "B", "", PageRaises}

NotAPdf == <<Corrupt>>

\* No PDF is being read.
NoPdf == [pages |-> <<>>, at |-> "none", open |-> FALSE, raised |-> FALSE,
          logged |-> FALSE, text |-> <<>>]

\* The process starts: the lifespan's startup step calls
\* ingest_documents(doc_dir=DOCUMENTS_PATH), force and file_paths defaulted.
Init ==
  /\ dirExists \in BOOLEAN
  /\ disk \in InitDisks
  /\ (~dirExists => disk = NoFiles)
  /\ index \in {{}, {OldEntry}, {OldEntry, OldPdfEntry}}
  /\ client = 0
  /\ collection = 0
  /\ clientsCreated = 0
  /\ collectionsCreated = 0
  /\ nextId = 0
  /\ app = "starting"
  /\ started = [t \in Tasks |-> 0]
  /\ failures = 0
  /\ pc = [t \in Tasks |-> IF t = "t1" THEN "ing_guard" ELSE "idle"]
  /\ op = [t \in Tasks |-> IF t = "t1" THEN "lifespan" ELSE None]
  /\ loc = [t \in Tasks |-> InitLoc]
  /\ call = [t \in Tasks |-> NoCall]
  /\ res = [t \in Tasks |-> Raised]
  /\ hist = [t \in Tasks |-> InitHist]
  /\ ret = [t \in Tasks |-> NoRet]
  /\ resp = [t \in Tasks |-> NoResp]
  /\ cache = EmptyCache
  /\ pdf = NoPdf

\* ------------------------------------------------------------------ ChromaManager
IdsBySource(source) == {e.id : e \in {x \in index : x.source = source}}

\* get_collection, up to its first await: the memoized handle is returned
\* without suspending (the method goes on to its backend call), otherwise the
\* client is requested.
get_collection(handle) == IF handle # 0 THEN "rpc" ELSE "connect"

\* A manager method is entered: its first statement is
\* coll = await self.get_collection().
Enter(t, method, source, cont) ==
  /\ call' = [call EXCEPT ![t] = [method |-> method, cont |-> cont, source |-> source]]
  /\ pc' = [pc EXCEPT ![t] = get_collection(collection)]

\* A backend call succeeds, or fails while the failure budget lasts.
Outcomes == IF failures < MaxFailures THEN BOOLEAN ELSE {TRUE}

\* A completed manager call: its method, the source it addressed and whether
\* it returned.
Called(c, ok) == [method |-> c.method, source |-> c.source, ok |-> ok]

\* An exception leaves the manager method: the caller resumes at its
\* continuation with the exception.
Raise(t) ==
  /\ failures' = failures + 1
  /\ res' = [res EXCEPT ![t] = Raised]
  /\ hist' = [hist EXCEPT ![t].calls = Append(@, call[t].method),
                          ![t].failed = @ \cup {call[t].method},
                          ![t].srcs = @ \cup {Called(call[t], FALSE)}]
  /\ pc' = [pc EXCEPT ![t] = call[t].cont]

\* await chromadb.AsyncHttpClient(...) completes.
Connect(t) ==
  /\ pc[t] = "connect"
  /\ LoopFree
  /\ \E ok \in Outcomes :
       IF ok
       THEN /\ clientsCreated' = clientsCreated + 1
            /\ client' = clientsCreated + 1
            /\ pc' = [pc EXCEPT ![t] = "getcoll"]
            /\ UNCHANGED <<res, hist, failures>>
       ELSE /\ Raise(t)
            /\ UNCHANGED <<client, clientsCreated>>
  /\ UNCHANGED <<disk, dirExists, index, collection, collectionsCreated, nextId,
                 app, started, op, loc, call, ret, resp>>
  /\ UNCHANGED aside

\* await self._client.get_or_create_collection(...) completes.
GetOrCreateCollection(t) ==
  /\ pc[t] = "getcoll"
  /\ LoopFree
  /\ \E ok \in Outcomes :
       IF ok
       THEN /\ collectionsCreated' = collectionsCreated + 1
            /\ collection' = collectionsCreated + 1
            /\ pc' = [pc EXCEPT ![t] = "rpc"]
            /\ UNCHANGED <<res, hist, failures>>
       ELSE /\ Raise(t)
            /\ UNCHANGED <<collection, collectionsCreated>>
  /\ UNCHANGED <<disk, dirExists, index, client, clientsCreated, nextId,
                 app, started, op, loc, call, ret, resp>>
  /\ UNCHANGED aside

\* The entries an add call writes: documents, metadatas and ids zipped.
Zip(documents, metadatas, ids) ==
  {[id |-> ids[i], source |-> metadatas[i].source, text |-> documents[i]] :
     i \in 1..Len(documents)}

\* await coll.count / get / delete / add completes: the backend has applied
\* the operation and answered, or it could not be reached.
Rpc(t) ==
  /\ pc[t] = "rpc"
  /\ LoopFree
  /\ \E ok \in Outcomes :
       LET m == call[t].method
           lengthsOk == /\ Len(loc[t].texts) = Len(loc[t].metadatas)
                        /\ Len(loc[t].texts) = Len(loc[t].ids)
                        /\ Len(loc[t].texts) > 0
       IN  IF ok /\ (m = "add" => lengthsOk)
           THEN /\ res' = [res EXCEPT ![t] =
                     CASE m = "count" -> Value(Cardinality(index))
                       [] m = "get_ids_by_source" -> Value(IdsBySource(call[t].source))
                       [] OTHER -> Value(None)]
                /\ index' =
                     CASE m = "delete_by_source" ->
                            {e \in index : e.source # call[t].source}
                       [] m = "add" ->
                            index \cup Zip(loc[t].texts, loc[t].metadatas, loc[t].ids)
                       [] OTHER -> index
                /\ hist' = [hist EXCEPT ![t].calls = Append(@, m),
                     ![t].srcs = @ \cup {Called(call[t], TRUE)}, ![t].added =
                     IF m = "add"
                     THEN Append(@, [documents |-> loc[t].texts,
                                     metadatas |-> loc[t].metadatas,
                                     ids |-> loc[t].ids])
                     ELSE @]
                /\ pc' = [pc EXCEPT ![t] = call[t].cont]
                /\ UNCHANGED failures
           ELSE /\ Raise(t)
                /\ UNCHANGED index
  /\ UNCHANGED <<disk, dirExists, client, collection, clientsCreated,
                 collectionsCreated, nextId, app, started,
                 op, loc, call, ret, resp>>
  /\ UNCHANGED aside


\* ------------------------------------------------------------------ ingest_documents
\* The startup guard applies: not force and not file_paths.
GuardApplies(force, file_paths) == ~force /\ Len(file_paths) = 0

\* Faulty variant: the guard compares with one instead of zero.
SkipPopulatedAboveOne(count) == count.ok /\ count.val > 1

\* The guard returns at once: count() answered with more than zero.
SkipPopulated(count) == count.ok /\ count.val > 0

\* Faulty variant: the exception of one candidate ends the loop.
AfterErrorAborts(rest) == <<>>

\* An exception in the loop body is caught and logged; the loop goes on with
\* the candidates after the failing one.
AfterError(rest) == rest

\* Faulty variant: the filename is recorded as processed as soon as its text
\* has been extracted, before the empty-text and zero-chunk checks.
RECURSIVE ScanFromEager(_, _, _)
ScanFromEager(candidates, dsk, acc) ==
  IF Len(candidates) = 0 THEN acc
  ELSE
    LET filename == Head(candidates)
        rest     == Tail(candidates)
        called   == [acc EXCEPT !.extracted = Append(@, filename)]
        text     == extract_text_from_path(filename, dsk[filename])
        chunks   == chunk_text(text.val, filename)
    IN  IF lower(splitext(filename)) \notin supported_ext
          THEN ScanFromEager(rest, dsk, acc)
        ELSE IF ~text.ok
          THEN ScanFromEager(AfterError(rest), dsk, called)
        ELSE ScanFromEager(rest, dsk,
               [called EXCEPT !.all_chunks = @ \o chunks,
                              !.sources = @ \o [i \in 1..Len(chunks) |-> filename],
                              !.processed_files = Append(@, filename)])

\* The per-candidate loop.  acc holds all_chunks, sources, processed_files and
\* the files handed to the extractor.
RECURSIVE ScanFrom(_, _, _)
ScanFrom(candidates, dsk, acc) ==
  IF Len(candidates) = 0 THEN acc
  ELSE
    LET filename == Head(candidates)
        rest     == Tail(candidates)
        called   == [acc EXCEPT !.extracted = Append(@, filename)]
        text     == extract_text_from_path(filename, dsk[filename])
        chunks   == chunk_text(text.val, filename)
    IN  IF lower(splitext(filename)) \notin supported_ext
          THEN ScanFrom(rest, dsk, acc)
        ELSE IF ~text.ok
          THEN ScanFrom(AfterError(rest), dsk, called)
        ELSE IF text.val = ""
          THEN ScanFrom(rest, dsk, called)
        ELSE IF Len(chunks) = 0
          THEN ScanFrom(rest, dsk, called)
        ELSE ScanFrom(rest, dsk,
               [called EXCEPT !.all_chunks = @ \o chunks,
                              !.sources = @ \o [i \in 1..Len(chunks) |-> filename],
                              !.processed_files = Append(@, filename)])

EmptyScan == [all_chunks |-> <<>>, sources |-> <<>>, processed_files |-> <<>>,
              extracted |-> <<>>]

\* Faulty variant: the empty batch is not detected.
NothingToIngestNever(all_chunks) == FALSE

\* if not all_chunks: return 0, 0, []
NothingToIngest(all_chunks) == Len(all_chunks) = 0

Documents(all_chunks) == [i \in 1..Len(all_chunks) |-> all_chunks[i].text]
Metadatas(all_chunks) == [i \in 1..Len(all_chunks) |-> [source |-> all_chunks[i].source]]

\* ids = [f"id_{uuid.uuid4()}" for _ in range(len(texts))]: values never drawn before
FreshIds(texts, drawn) == [i \in 1..Len(texts) |-> drawn + i]

\* Faulty variant: the first count is the number of files instead of chunks.
ReturnValueCountsFiles(texts, processed_files) ==
  [state |-> "returned", chunks |-> Len(processed_files),
   docs |-> Cardinality(Range(processed_files)), names |-> processed_files]

\* return len(texts), len(set(processed_files)), processed_files
ReturnValue(texts, processed_files) ==
  Returned(Len(texts), Cardinality(Range(processed_files)), processed_files)

\* The orders in which os.listdir can list the files of the directory.
Listings(dsk) ==
  LET present == {f \in FileNames : dsk[f] # None}
  IN  {s \in SeqsUpTo(FileNames, Cardinality(present)) :
         Len(s) = Cardinality(present) /\ Range(s) = present}

\* What upload_documents answers.
OkResponse(r) ==
  [status |-> 200, detail |-> None, added_chunks |-> r.chunks,
   documents_count |-> r.docs, processed_files |-> r.names]

ErrorResponse(status, detail) ==
  [status |-> status, detail |-> detail, added_chunks |-> 0,
   documents_count |-> 0, processed_files |-> <<>>]

\* What the caller of ingest_documents does with an exception of it:
\* upload_documents turns it into HTTP 500; the lifespan has no handler, so
\* the exception leaves the startup step and the application does not start.
UploadResponse(r) ==
  IF r.state = "raised" THEN ErrorResponse(500, "ingest error") ELSE OkResponse(r)

LifespanOutcome(r) == IF r.state = "raised" THEN "failed" ELSE "serving"


\* ingest_documents returns value to its caller, or raises, and the caller
\* resumes: upload_documents answers, the lifespan's startup step ends.
Return(t, value) ==
  /\ ret' = [ret EXCEPT ![t] = value]
  /\ pc' = [pc EXCEPT ![t] = "done"]
  /\ IF op[t] = "lifespan"
     THEN /\ app' = LifespanOutcome(value)
          /\ UNCHANGED resp
     ELSE /\ resp' = [resp EXCEPT ![t] = UploadResponse(value)]
          /\ UNCHANGED app
  /\ UNCHANGED <<disk, dirExists, index, client, collection, clientsCreated,
                 collectionsCreated, nextId, started, failures>>

\* Lines 126-132: the guard is evaluated; count() is called when it applies.
IngestGuard(t) ==
  /\ pc[t] = "ing_guard"
  /\ hist' = [hist EXCEPT ![t].before = index]
  /\ IF GuardApplies(loc[t].force, loc[t].file_paths)
     THEN Enter(t, "count", None, "ing_count_ret")
     ELSE /\ pc' = [pc EXCEPT ![t] = "ing_scan"]
          /\ UNCHANGED call
  /\ UNCHANGED <<globals, op, loc, res, ret, resp>>
  /\ UNCHANGED aside

\* count() has answered or raised: a populated collection ends the pass, an
\* exception is logged and the pass goes on.
IngestCountRet(t) ==
  /\ pc[t] = "ing_count_ret"
  /\ hist' = [hist EXCEPT ![t].count = IF res[t].ok THEN res[t].val ELSE -1]
  /\ IF SkipPopulated(res[t])
     THEN Return(t, Returned(0, 0, <<>>))
     ELSE /\ pc' = [pc EXCEPT ![t] = "ing_scan"]
          /\ UNCHANGED <<globals, ret, resp>>
  /\ UNCHANGED <<op, loc, call, res>>
  /\ UNCHANGED aside

\* Lines 134-175: candidates are resolved and every candidate is extracted and
\* chunked; no await occurs in the loop.
IngestScan(t) ==
  /\ pc[t] = "ing_scan"
  /\ IF Len(loc[t].file_paths) = 0 /\ ~dirExists
     THEN /\ Return(t, Returned(0, 0, <<>>))
          /\ UNCHANGED <<loc, hist>>
     ELSE \E candidates \in (IF Len(loc[t].file_paths) > 0
                             THEN {loc[t].file_paths} ELSE Listings(disk)) :
            LET s == ScanFrom(candidates, disk, EmptyScan)
            IN  /\ hist' = [hist EXCEPT ![t].extracted = s.extracted,
                                        ![t].scanned = disk]
                /\ loc' = [loc EXCEPT ![t].candidates = candidates,
                                      ![t].all_chunks = s.all_chunks,
                                      ![t].sources = s.sources,
                                      ![t].processed_files = s.processed_files,
                                      ![t].texts = Documents(s.all_chunks),
                                      ![t].metadatas = Metadatas(s.all_chunks),
                                      ![t].todo = Range(s.processed_files)]
                /\ IF NothingToIngest(s.all_chunks)
                   THEN Return(t, Returned(0, 0, <<>>))
                   ELSE /\ pc' = [pc EXCEPT ![t] = "ing_next_src"]
                        /\ UNCHANGED <<globals, ret, resp>>
  /\ UNCHANGED <<op, call, res>>
  /\ UNCHANGED aside

\* Lines 179-182: the next source of list(set(processed_files)), in any order,
\* is looked up; after the last one the ids are drawn and add is called.
IngestNextSrc(t) ==
  /\ pc[t] = "ing_next_src"
  /\ IF loc[t].todo # {}
     THEN /\ \E src \in loc[t].todo :
               /\ loc' = [loc EXCEPT ![t].todo = @ \ {src}]
               /\ Enter(t, "get_ids_by_source", src, "ing_got_ids")
          /\ UNCHANGED <<nextId, hist>>
     ELSE /\ loc' = [loc EXCEPT ![t].ids = FreshIds(loc[t].texts, nextId)]
          /\ nextId' = nextId + Len(loc[t].texts)
          /\ hist' = [hist EXCEPT ![t].newIds =
                        Range(FreshIds(loc[t].texts, nextId))]
          /\ Enter(t, "add", None, "ing_added")
  /\ UNCHANGED <<disk, dirExists, index, client, collection, clientsCreated,
                 collectionsCreated, app, started, failures, op, res, ret, resp>>
  /\ UNCHANGED aside

\* Lines 183-187: existing ids lead to delete_by_source; an exception of the
\* lookup is logged and the loop goes on.
IngestGotIds(t) ==
  /\ pc[t] = "ing_got_ids"
  /\ IF res[t].ok /\ res[t].val # {}
     THEN Enter(t, "delete_by_source", call[t].source, "ing_deleted")
     ELSE /\ pc' = [pc EXCEPT ![t] = "ing_next_src"]
          /\ UNCHANGED call
  /\ UNCHANGED <<globals, op, loc, res, hist, ret, resp>>
  /\ UNCHANGED aside

\* Lines 185-187: delete_by_source has returned or raised; an exception is
\* logged and the loop goes on.
IngestDeleted(t) ==
  /\ pc[t] = "ing_deleted"
  /\ pc' = [pc EXCEPT ![t] = "ing_next_src"]
  /\ UNCHANGED <<globals, op, loc, call, res, hist, ret, resp>>
  /\ UNCHANGED aside

\* Faulty variant: an exception of add is caught and logged like those of the
\* lookup and the delete, and the counts are returned.
IngestAddedSwallows(t) ==
  /\ pc[t] = "ing_added"
  /\ Return(t, ReturnValue(loc[t].texts, loc[t].processed_files))
  /\ UNCHANGED <<op, loc, call, res, hist>>
  /\ UNCHANGED aside

\* Lines 192-194: add has returned, and the counts are returned, or it has
\* raised, and the exception leaves ingest_documents.
IngestAdded(t) ==
  /\ pc[t] = "ing_added"
  /\ IF res[t].ok
     THEN Return(t, ReturnValue(loc[t].texts, loc[t].processed_files))
     ELSE Return(t, RaisedRet)
  /\ UNCHANGED <<op, loc, call, res, hist>>
  /\ UNCHANGED aside


\* ------------------------------------------------------------------ request handlers
\* Faulty variant: a request is accepted only when no other handler is in
\* progress, as under a lock around the whole handler.
AcceptOneAtATime(t, handler, locals) ==
  /\ app = "serving"
  /\ \A u \in Tasks : pc[u] = "idle"
  /\ started[t] < MaxRequests
  /\ started' = [started EXCEPT ![t] = @ + 1]
  /\ op' = [op EXCEPT ![t] = handler]
  /\ loc' = [loc EXCEPT ![t] = locals]
  /\ hist' = [hist EXCEPT ![t] = InitHist]
  /\ ret' = [ret EXCEPT ![t] = NoRet]

\* A request is accepted and its handler starts running.
Accept(t, handler, locals) ==
  /\ app = "serving"
  /\ pc[t] = "idle"
  /\ LoopFree
  /\ started[t] < MaxRequests
  /\ started' = [started EXCEPT ![t] = @ + 1]
  /\ op' = [op EXCEPT ![t] = handler]
  /\ loc' = [loc EXCEPT ![t] = locals]
  /\ hist' = [hist EXCEPT ![t] = InitHist]
  /\ ret' = [ret EXCEPT ![t] = NoRet]

\* POST /documents, lines 130-136: the request carries parts >= 1 parts.
StartUpload(t, parts) ==
  /\ Accept(t, "upload", [InitLoc EXCEPT !.force = TRUE, !.parts = parts])
  /\ dirExists' = TRUE
  /\ pc' = [pc EXCEPT ![t] = "up_loop"]
  /\ UNCHANGED <<disk, index, client, collection, clientsCreated,
                 collectionsCreated, nextId, app, failures, call, res, resp>>
  /\ UNCHANGED aside

\* The head of the save loop, lines 139-143, with the next part of the
\* request: a part without a filename is skipped, any other part is read.
UploadPart(t, part) ==
  /\ pc[t] = "up_loop"
  /\ loc[t].nparts < loc[t].parts
  /\ loc' = [loc EXCEPT ![t].nparts = @ + 1, ![t].part = part]
  /\ pc' = [pc EXCEPT ![t] = IF part.filename = NoName THEN "up_loop" ELSE "up_read"]
  /\ UNCHANGED <<globals, op, call, res, hist, ret, resp>>
  /\ UNCHANGED aside

\* await f.read() completes and the content is written to the documents
\* directory, lines 144-147.
UploadRead(t) ==
  /\ pc[t] = "up_read"
  /\ LoopFree
  /\ LET part == loc[t].part
     IN  /\ disk' = [disk EXCEPT ![part.filename] = part.content]
         /\ loc' = [loc EXCEPT ![t].part = NoPart,
                               ![t].saved_paths = Append(@, part.filename)]
  /\ pc' = [pc EXCEPT ![t] = "up_loop"]
  /\ UNCHANGED <<dirExists, index, client, collection, clientsCreated,
                 collectionsCreated, nextId, app, started, failures,
                 op, call, res, hist, ret, resp>>
  /\ UNCHANGED aside

\* The request has no further part, lines 149-153: with nothing saved the
\* answer is HTTP 400, otherwise ingest_documents is called with the saved
\* paths and force=True.
UploadEnd(t) ==
  /\ pc[t] = "up_loop"
  /\ loc[t].nparts = loc[t].parts
  /\ IF Len(loc[t].saved_paths) = 0
     THEN /\ resp' = [resp EXCEPT ![t] = ErrorResponse(400, "no file saved")]
          /\ pc' = [pc EXCEPT ![t] = "done"]
          /\ UNCHANGED loc
     ELSE /\ loc' = [loc EXCEPT ![t].file_paths = loc[t].saved_paths,
                                ![t].part = NoPart]
          /\ pc' = [pc EXCEPT ![t] = "ing_guard"]
          /\ UNCHANGED resp
  /\ UNCHANGED <<globals, op, call, res, hist, ret>>
  /\ UNCHANGED aside

\* ------------------------------------------------------------------ DELETE /documents/{filename}
\* Faulty variant: a failure of the index removal fails the request.
DeleteResponseFailsOnRag(ragFailed, existed, removeFailed) ==
  [status |-> IF ragFailed \/ (existed /\ removeFailed) THEN 500 ELSE 200,
   detail |-> "deleted", added_chunks |-> 0, documents_count |-> 0,
   processed_files |-> <<>>]

\* The response of delete_document: a failure of the index removal is logged
\* and ignored; only a failing os.remove of an existing file gives HTTP 500.
DeleteResponse(ragFailed, existed, removeFailed) ==
  IF existed /\ removeFailed
  THEN ErrorResponse(500, "could not remove file")
  ELSE ErrorResponse(200, "deleted")

\* Lines 206-210: delete_document_from_rag calls delete_by_source.
StartDelete(t, filename) ==
  /\ Accept(t, "delete", [InitLoc EXCEPT !.filename = filename])
  /\ Enter(t, "delete_by_source", filename, "del_rag_ret")
  /\ UNCHANGED <<disk, dirExists, index, client, collection, clientsCreated,
                 collectionsCreated, nextId, app, failures, res, resp>>
  /\ UNCHANGED aside

\* Lines 211-226: the index removal has returned or raised; the file is
\* removed if it exists, and os.remove can fail.
DeleteRagRet(t) ==
  /\ pc[t] = "del_rag_ret"
  /\ LET filename == loc[t].filename
         existed  == disk[filename] # None
     IN  \E removeFailed \in (IF existed THEN BOOLEAN ELSE {FALSE}) :
           /\ disk' = IF existed /\ ~removeFailed
                      THEN [disk EXCEPT ![filename] = None] ELSE disk
           /\ hist' = [hist EXCEPT ![t].existed = existed,
                                   ![t].removed = existed /\ ~removeFailed]
           /\ resp' = [resp EXCEPT ![t] =
                         DeleteResponse(~res[t].ok, existed, removeFailed)]
  /\ pc' = [pc EXCEPT ![t] = "done"]
  /\ UNCHANGED <<dirExists, index, client, collection, clientsCreated,
                 collectionsCreated, nextId, app, started, failures,
                 op, loc, call, res, ret>>
  /\ UNCHANGED aside


\* ------------------------------------------------------------------ POST /ask
Questions == {"", "  ", "Hi ", "hi"}

\* str.strip() on the questions of the model
strip(q) == CASE q = "  " -> "" [] q = "Hi " -> "Hi" [] OTHER -> q

\* hash_query: md5 of query.lower().strip()
hash_query(query) == <<"md5", IF strip(query) = "Hi" THEN "hi" ELSE strip(query)>>

\* The functions declared with async def: calling one gives a coroutine.
\* hash_query, get_cache and set_cache of app/cache.py are plain functions.
CoroutineFunctions ==
  {"retrieve_context", "generate_answer", "ingest_documents",
   "delete_document_from_rag"}

\* await f(...): the value f returned can be awaited only if f is a coroutine
\* function; awaiting a str, a dict or None raises TypeError.
Awaitable(f) == f \in CoroutineFunctions

\* ask_question: an empty question is refused; the awaits of lines 75-76 are
\* outside the try block of line 84, so a TypeError of them is unhandled and
\* the request ends with HTTP 500.
AskResponse(q) ==
  IF strip(q) = "" THEN ErrorResponse(400, "Question is empty")
  ELSE IF ~Awaitable("hash_query") THEN ErrorResponse(500, "TypeError")
  ELSE IF ~Awaitable("get_cache") THEN ErrorResponse(500, "TypeError")
  ELSE ErrorResponse(200, "answer")

AskQuestion(t, q) ==
  /\ Accept(t, "ask", [InitLoc EXCEPT !.question = q])
  /\ resp' = [resp EXCEPT ![t] = AskResponse(q)]
  /\ pc' = [pc EXCEPT ![t] = "done"]
  /\ UNCHANGED <<disk, dirExists, index, client, collection, clientsCreated,
                 collectionsCreated, nextId, app, failures, call, res>>
  /\ UNCHANGED aside

\* ------------------------------------------------------------------ next-state relation
\* The response has been sent (or the startup step has ended): the task ends.
Finish(t) ==
  /\ pc[t] = "done"
  /\ LoopFree
  /\ pc' = [pc EXCEPT ![t] = "idle"]
  /\ op' = [op EXCEPT ![t] = None]
  /\ loc' = [loc EXCEPT ![t] = InitLoc]
  /\ call' = [call EXCEPT ![t] = NoCall]
  /\ res' = [res EXCEPT ![t] = Raised]
  /\ hist' = [hist EXCEPT ![t] = InitHist]
  /\ ret' = [ret EXCEPT ![t] = NoRet]
  /\ resp' = [resp EXCEPT ![t] = NoResp]
  /\ UNCHANGED globals
  /\ UNCHANGED aside

Step(t) ==
  \/ Connect(t)
  \/ GetOrCreateCollection(t)
  \/ Rpc(t)
  \/ IngestGuard(t)
  \/ IngestCountRet(t)
  \/ IngestScan(t)
  \/ IngestNextSrc(t)
  \/ IngestGotIds(t)
  \/ IngestDeleted(t)
  \/ IngestAdded(t)
  \/ \E part \in Parts : UploadPart(t, part)
  \/ UploadEnd(t)
  \/ UploadRead(t)
  \/ DeleteRagRet(t)
  \/ Finish(t)

DeleteDocument(t)  == \E filename \in FileNames : StartDelete(t, filename)
Ask(t)             == \E q \in Questions : AskQuestion(t, q)

\* One worker serves the requests one after the other.
Serial(t) == t = "t1" /\ AllIdle

Next ==
  \E t \in Tasks :
    \/ Step(t)
    \/ Serial(t) /\ \E parts \in 1..MaxFiles : StartUpload(t, parts)
    \/ Serial(t) /\ DeleteDocument(t)
    \/ Serial(t) /\ Ask(t)

Spec == Init /\ [][Next]_vars

\* Requests served concurrently: a handler starts whenever the loop is free.
\* The concurrent uploads carry one part each.
NextConc ==
  \E t \in Tasks :
    \/ Step(t)
    \/ StartUpload(t, 1)
    \/ DeleteDocument(t)
    \/ Ask(t)

SpecConc == Init /\ [][NextConc]_vars

\* Uploads of one file served concurrently: the documents directory holds
\* a.txt at startup, and every request is a POST /documents with one part,
\* a.txt with a text that yields chunks.
InitRace == Init /\ disk["a.txt"] # None /\ disk["b.PDF"] = None

RaceParts == {p \in Parts : p.filename = "a.txt" /\ NumChunks(p.content) > 0}

NextRace ==
  \E t \in Tasks :
    \/ Connect(t)
    \/ GetOrCreateCollection(t)
    \/ Rpc(t)
    \/ IngestGuard(t)
    \/ IngestCountRet(t)
    \/ IngestScan(t)
    \/ IngestNextSrc(t)
    \/ IngestGotIds(t)
    \/ IngestDeleted(t)
    \/ IngestAdded(t)
    \/ StartUpload(t, 1)
    \/ \E part \in RaceParts : UploadPart(t, part)
    \/ UploadRead(t)
    \/ UploadEnd(t)
    \/ Finish(t)

SpecRace == InitRace /\ [][NextRace]_vars

\* ------------------------------------------------------------------ app/cache.py
\* The state of the pipeline and of the handlers.
program == <<globals, pc, op, loc, call, res, hist, ret, resp>>

\* The application has started over an empty documents directory and serves;
\* no request is in progress.
AtRest ==
  /\ dirExists = FALSE
  /\ disk = NoFiles
  /\ index = {}
  /\ client = 0
  /\ collection = 0
  /\ clientsCreated = 0
  /\ collectionsCreated = 0
  /\ nextId = 0
  /\ app = "serving"
  /\ started = [t \in Tasks |-> 0]
  /\ failures = 0
  /\ pc = [t \in Tasks |-> "idle"]
  /\ op = [t \in Tasks |-> None]
  /\ loc = [t \in Tasks |-> InitLoc]
  /\ call = [t \in Tasks |-> NoCall]
  /\ res = [t \in Tasks |-> Raised]
  /\ hist = [t \in Tasks |-> InitHist]
  /\ ret = [t \in Tasks |-> NoRet]
  /\ resp = [t \in Tasks |-> NoResp]

\* What Redis holds for a key at time now: an entry is gone once its ttl has
\* run out.
Live(entry, now) ==
  IF entry.present /\ now < entry.expires THEN entry ELSE NoEntry

\* Faulty variant: the truth value of the decoded dictionary is tested.
TruthyLoaded(cached) == cached.present /\ json_loads(cached.text) # {}

\* `if cached`: redis_client.get answered with a string, which is never empty
\* for a JSON text.
Truthy(cached) == cached.present

\* set_cache: redis_client.setex(key, ttl, json.dumps(value)); an exception of
\* Redis is logged and the key is left as it was.
SetCache(k, v, ttl) ==
  /\ \E ok \in BOOLEAN :
       cache' = [cache EXCEPT
                   !.store[k] = IF ok
                                THEN [present |-> TRUE, text |-> json_dumps(v),
                                      expires |-> cache.now + ttl]
                                ELSE @,
                   !.put[k] = [called |-> TRUE, ok |-> ok, value |-> v,
                               ttl |-> ttl, at |-> cache.now],
                   !.got = NoGot]
  /\ UNCHANGED <<program, pdf>>

\* get_cache: the decoded value when redis_client.get answers with a string,
\* None when it answers None or raises.
GetCache(k) ==
  /\ \E ok \in BOOLEAN :
       LET cached == Live(cache.store[k], cache.now)
           hit    == ok /\ Truthy(cached)
       IN  cache' = [cache EXCEPT
                       !.got = [called |-> TRUE, key |-> k, ok |-> ok, hit |-> hit,
                                value |-> IF hit THEN json_loads(cached.text) ELSE {}]]
  /\ UNCHANGED <<program, pdf>>

\* redis_client.delete(key)
DeleteKey(k) ==
  /\ cache.store[k].present
  /\ cache' = [cache EXCEPT !.store[k] = NoEntry, !.put[k] = NoPut, !.got = NoGot]
  /\ UNCHANGED <<program, pdf>>

\* A second passes on the Redis server.
Tick ==
  /\ cache.now < MaxTime
  /\ cache' = [cache EXCEPT !.now = @ + 1, !.got = NoGot]
  /\ UNCHANGED <<program, pdf>>

InitCache == AtRest /\ cache = EmptyCache /\ pdf = NoPdf

NextCache ==
  \/ \E k \in CacheKeys, v \in Dicts, ttl \in 1..MaxTtl : SetCache(k, v, ttl)
  \/ \E k \in CacheKeys : GetCache(k)
  \/ \E k \in CacheKeys : DeleteKey(k)
  \/ Tick

SpecCache == InitCache /\ [][NextCache]_vars

\* ------------------------------------------------------------------ extract_text_from_pdf
\* Lines 20-26: the loop over reader.pages inside the try block.  The text of
\* a page is appended with a newline when it is not empty; an exception of a
\* page leaves the loop and is logged by the except clause.
RECURSIVE PagesText(_, _)
PagesText(pages, text) ==
  IF Len(pages) = 0 THEN [text |-> text, logged |-> FALSE]
  ELSE IF Head(pages) = PageRaises THEN [text |-> text, logged |-> TRUE]
  ELSE PagesText(Tail(pages),
                 IF Head(pages) # "" THEN text \o <<Head(pages), "\n">> ELSE text)

\* Line 19: reader = PdfReader(pdf_path), before the try block.  A file that
\* is no PDF raises, and the exception leaves the function.
PdfReaderOpen ==
  /\ pdf.at = "called"
  /\ pdf' = IF pdf.pages = NotAPdf
            THEN [pdf EXCEPT !.at = "returned", !.raised = TRUE]
            ELSE [pdf EXCEPT !.at = "reading", !.open = TRUE]
  /\ UNCHANGED <<program, cache>>

\* Lines 20-30: the pages are read, the finally clause closes the reader and
\* the text is returned.
PdfExtractText ==
  /\ pdf.at = "reading"
  /\ pdf' = [pdf EXCEPT !.at = "returned",
                        !.text = PagesText(pdf.pages, <<>>).text,
                        !.logged = PagesText(pdf.pages, <<>>).logged,
                        !.open = FALSE]
  /\ UNCHANGED <<program, cache>>

\* extract_text_from_pdf is called with a file of up to MaxPages pages, or
\* with a file that is no PDF.
InitPdf ==
  /\ AtRest
  /\ cache = EmptyCache
  /\ pdf \in {[NoPdf EXCEPT !.pages = p, !.at = "called"] :
                p \in SeqsUpTo(Pages, MaxPages) \cup {NotAPdf}}

NextPdf == PdfReaderOpen \/ PdfExtractText

SpecPdf == InitPdf /\ [][NextPdf]_vars


\* ------------------------------------------------------------------ properties
\* A task whose handler has ended and that ran ingest_documents.
IngestEnded(t) ==
  pc[t] = "done" /\ op[t] \in {"upload", "lifespan"} /\ ret[t].state # "none"

IndexCalls == {"get_ids_by_source", "delete_by_source", "add"}

\* The candidate yields at least one chunk: supported extension, extraction
\* without exception, and a text the splitter makes chunks of.
Yields(filename, content) ==
  /\ lower(splitext(filename)) \in supported_ext
  /\ extract_text_from_path(filename, content).ok
  /\ NumChunks(extract_text_from_path(filename, content).val) > 0

\* Extraction of the candidate raises inside the loop body.
Fails(filename, content) ==
  /\ lower(splitext(filename)) \in supported_ext
  /\ ~extract_text_from_path(filename, content).ok

\* C1: after a pass over F that returned normally and wrote F's new content,
\* no entry that an earlier pass of this process wrote for F with another
\* content is left in the index, and none of its ids is drawn again.
C1_ReingestReplaces ==
  \A t \in Tasks :
    IngestEnded(t) /\ ret[t].state = "returned" =>
      \A e \in hist[t].before :
        ( /\ e.id > 0
          /\ e.source \in Range(ret[t].names)
          /\ e.text[1] # hist[t].scanned[e.source] )
        => e \notin index /\ e.id \notin hist[t].newIds

\* C2: a pass with force=false and no file list whose count() answered more
\* than zero returns (0, 0, []), has called neither the extractor nor any
\* other index method, and leaves the index as it was.
C2_SkipPopulated ==
  \A t \in Tasks :
    ( /\ IngestEnded(t)
      /\ ~loc[t].force
      /\ Len(loc[t].file_paths) = 0
      /\ hist[t].count > 0 )
    => /\ ret[t] = Returned(0, 0, <<>>)
       /\ hist[t].extracted = <<>>
       /\ hist[t].calls = <<"count">>
       /\ index = hist[t].before

C2_Witness ==
  \E t \in Tasks :
    /\ IngestEnded(t)
    /\ ~loc[t].force
    /\ Len(loc[t].file_paths) = 0
    /\ hist[t].count > 0
    /\ \E f \in FileNames : Yields(f, disk[f])

\* C3: the collection handle is created at most once in the process.
C3_HandleCreatedOnce == collectionsCreated <= 1

\* C4: an upload in which a lookup, a delete or the add failed answers
\* HTTP 500 with a string detail.
C4_UploadSurfacesFailure ==
  \A t \in Tasks :
    ( /\ pc[t] = "done"
      /\ op[t] = "upload"
      /\ hist[t].failed \cap IndexCalls # {} )
    => resp[t].status = 500 /\ resp[t].detail # None

\* C5: a startup pass in which an index call failed ends without an exception
\* and the application serves.
C5_StartupOnlyLogs ==
  \A t \in Tasks :
    ( /\ pc[t] = "done"
      /\ op[t] = "lifespan"
      /\ hist[t].failed # {} )
    => ret[t].state = "returned" /\ app = "serving"

\* The candidates of the pass of t: the saved paths of an upload, the files
\* of the directory for the startup pass.
Candidate(t, f) ==
  IF op[t] = "upload" THEN f \in Range(loc[t].file_paths)
  ELSE dirExists /\ disk[f] # None

\* C6: a pass none of whose candidates yields a chunk returns (0, 0, [])
\* without raising and without a lookup, a delete or an add.
C6_NoChunksZero ==
  \A t \in Tasks :
    ( /\ IngestEnded(t)
      /\ \A f \in FileNames : Candidate(t, f) => ~Yields(f, disk[f]) )
    => /\ ret[t] = Returned(0, 0, <<>>)
       /\ Range(hist[t].calls) \cap IndexCalls = {}
       /\ index = hist[t].before

C6_Witness ==
  \E t \in Tasks :
    /\ IngestEnded(t)
    /\ op[t] = "upload"
    /\ \A f \in FileNames : Candidate(t, f) => ~Yields(f, disk[f])
    /\ \E f \in FileNames : Candidate(t, f) /\ disk[f] = "ws"
    /\ \E f \in FileNames : Candidate(t, f) /\ Fails(f, disk[f])

\* The chunks of filename are in the index under ids of the pass of t.
Indexed(t, filename, content) ==
  \A i \in 1..NumChunks(extract_text_from_path(filename, content).val) :
    \E e \in index :
      /\ e.source = filename
      /\ e.text = <<extract_text_from_path(filename, content).val, i>>
      /\ e.id \in hist[t].newIds

\* C7, as claimed: in a pass that returned and in which the extraction of a
\* candidate raised, every other candidate with a supported extension and
\* non-empty text is listed in processed_filenames and is in the index.
C7_NonEmptyTextProcessed ==
  \A t \in Tasks :
    ( /\ IngestEnded(t)
      /\ ret[t].state = "returned"
      /\ \E g \in Range(loc[t].candidates) : Fails(g, hist[t].scanned[g]) )
    => \A f \in Range(loc[t].candidates) :
         ( /\ lower(splitext(f)) \in supported_ext
           /\ extract_text_from_path(f, hist[t].scanned[f]).ok
           /\ extract_text_from_path(f, hist[t].scanned[f]).val # "" )
         => f \in Range(ret[t].names) /\ Indexed(t, f, hist[t].scanned[f])

\* C7, amended: in a pass in which the extraction of a candidate raised, every
\* other candidate with a supported extension whose text yields at least one
\* chunk is chunked and recorded as processed, wherever the failing file
\* stands; when the pass returns it is listed in processed_filenames and its
\* chunks are in the index.
C7_FailureSkipsOnlyThatFile ==
  \A t \in Tasks :
    ( /\ IngestEnded(t)
      /\ \E g \in Range(loc[t].candidates) : Fails(g, hist[t].scanned[g]) )
    => \A f \in Range(loc[t].candidates) :
         Yields(f, hist[t].scanned[f])
         => /\ f \in Range(loc[t].processed_files)
            /\ \E i \in 1..Len(loc[t].all_chunks) : loc[t].all_chunks[i].source = f
            /\ ret[t].state = "returned"
               => f \in Range(ret[t].names) /\ Indexed(t, f, hist[t].scanned[f])

\* A returned batch whose first candidate failed and whose second was indexed.
C7_Witness ==
  \E t \in Tasks :
    /\ IngestEnded(t)
    /\ ret[t].state = "returned"
    /\ Len(loc[t].candidates) = 2
    /\ Fails(loc[t].candidates[1], hist[t].scanned[loc[t].candidates[1]])
    /\ Yields(loc[t].candidates[2], hist[t].scanned[loc[t].candidates[2]])
    /\ ret[t].names = <<loc[t].candidates[2]>>

\* The chunk records the candidates yield, in candidate order.
RECURSIVE ExpectedChunks(_, _)
ExpectedChunks(candidates, scanned) ==
  IF Len(candidates) = 0 THEN <<>>
  ELSE LET f == Head(candidates)
       IN  (IF Yields(f, scanned[f])
            THEN chunk_text(extract_text_from_path(f, scanned[f]).val, f)
            ELSE <<>>) \o ExpectedChunks(Tail(candidates), scanned)

\* C8: a pass that returns a non-zero result (c, d, names) made exactly one
\* add call, with documents, metadatas and ids of equal length c, aligned
\* with the chunks of the candidates in candidate order; c entries were
\* written; d is the number of distinct names; names lists, in candidate
\* order, the candidates that yield a chunk.
C8_ReturnValue ==
  \A t \in Tasks :
    ( /\ IngestEnded(t)
      /\ ret[t].state = "returned"
      /\ ret[t] # Returned(0, 0, <<>>) )
    => /\ Len(hist[t].added) = 1
       /\ LET a == hist[t].added[1]
              expected == ExpectedChunks(loc[t].candidates, hist[t].scanned)
          IN  /\ Len(a.documents) = ret[t].chunks
              /\ Len(a.metadatas) = ret[t].chunks
              /\ Len(a.ids) = ret[t].chunks
              /\ Len(expected) = ret[t].chunks
              /\ \A i \in 1..Len(expected) :
                   /\ a.documents[i] = expected[i].text
                   /\ a.metadatas[i].source = expected[i].source
              /\ Cardinality({e \in index : e.id \in Range(a.ids)}) = ret[t].chunks
              /\ \A i \in 1..Len(a.ids) :
                   [id |-> a.ids[i], source |-> expected[i].source,
                    text |-> expected[i].text] \in index
       /\ ret[t].docs = Cardinality(Range(ret[t].names))
       /\ ret[t].names =
            SelectSeq(loc[t].candidates, LAMBDA f : Yields(f, hist[t].scanned[f]))

\* Two files processed, one of them in two chunks.
C8_Witness ==
  \E t \in Tasks :
    /\ IngestEnded(t)
    /\ ret[t].state = "returned"
    /\ ret[t].docs = 2
    /\ ret[t].chunks = 3

\* C9: DELETE /documents/{filename} answers 500 exactly when the file existed
\* and os.remove failed; otherwise it answers success and the file is gone,
\* also when the removal from the index failed.
C9_DeleteBestEffort ==
  \A t \in Tasks :
    pc[t] = "done" /\ op[t] = "delete" =>
      /\ resp[t].status \in {200, 500}
      /\ resp[t].status = 500 <=> (hist[t].existed /\ ~hist[t].removed)
      /\ resp[t].status = 200 => disk[loc[t].filename] = None

\* The index removal failed, and the file that existed was removed with success.
C9_Witness ==
  \E t \in Tasks :
    /\ pc[t] = "done"
    /\ op[t] = "delete"
    /\ "delete_by_source" \in hist[t].failed
    /\ hist[t].existed
    /\ hist[t].removed
    /\ resp[t].status = 200

\* C10: POST /ask with a non-empty question answers with a result, cached or
\* fresh.
C10_AskAnswers ==
  \A t \in Tasks :
    ( /\ pc[t] = "done"
      /\ op[t] = "ask"
      /\ strip(loc[t].question) # "" )
    => resp[t].status = 200

\* The entries of source f in a set of entries.
OfSource(entries, f) == {e \in entries : e.source = f}

\* The sources whose delete_by_source returned in the pass of t.
Deleted(t) ==
  {c.source : c \in {x \in hist[t].srcs : x.method = "delete_by_source" /\ x.ok}}

\* The add of the pass of t raised.
AddFailed(t) == \E c \in hist[t].srcs : c.method = "add" /\ ~c.ok

\* C13: a pass in which a delete succeeded and the add then failed ends with
\* the add's exception (HTTP 500 for an upload, a failed startup for the
\* lifespan); nothing is put back: the index is what it was before the pass
\* less every entry of the deleted sources, and holds none of the new ids.
C13_NoRollback ==
  \A t \in Tasks :
    ( /\ IngestEnded(t)
      /\ Deleted(t) # {}
      /\ AddFailed(t) )
    => /\ ret[t].state = "raised"
       /\ op[t] = "upload" => resp[t].status = 500
       /\ op[t] = "lifespan" => app = "failed"
       /\ index = {e \in hist[t].before : e.source \notin Deleted(t)}
       /\ \A e \in index : e.id \notin hist[t].newIds
       /\ hist[t].calls[Len(hist[t].calls)] = "add"

\* The old entries were deleted, the add failed, and new chunks were pending.
C13_Witness ==
  \E t \in Tasks :
    /\ IngestEnded(t)
    /\ AddFailed(t)
    /\ \E f \in Deleted(t) : OfSource(hist[t].before, f) # {}
    /\ hist[t].newIds # {}
    /\ ret[t].state = "raised"

\* C15: a pass looks up and deletes only the sources of candidates that yield
\* a chunk in this pass; a candidate that yields none (empty text, text the
\* splitter makes no chunk of, an extraction that raises) keeps every entry it
\* had before the pass and is not listed in processed_filenames.
C15_ZeroChunkKeepsEntries ==
  \A t \in Tasks :
    IngestEnded(t) =>
      /\ \A c \in hist[t].srcs :
           c.method \in {"get_ids_by_source", "delete_by_source"}
           => /\ c.source \in Range(loc[t].candidates)
              /\ Yields(c.source, hist[t].scanned[c.source])
      /\ \A f \in Range(loc[t].candidates) :
           ~Yields(f, hist[t].scanned[f])
           => /\ OfSource(index, f) = OfSource(hist[t].before, f)
              /\ f \notin Range(ret[t].names)
              /\ f \notin Range(resp[t].processed_files)

\* A previously indexed file is uploaded again with content that yields no
\* chunk, next to a file that is indexed by the same pass.
C15_Witness ==
  \E t \in Tasks :
    /\ IngestEnded(t)
    /\ op[t] = "upload"
    /\ ret[t].state = "returned"
    /\ ret[t].names # <<>>
    /\ \E f \in Range(loc[t].candidates) :
         /\ Fails(f, hist[t].scanned[f])
         /\ OfSource(hist[t].before, f) # {}
         /\ OfSource(index, f) = OfSource(hist[t].before, f)

\* C16: after a pass that returned and none of whose index calls failed, the
\* index holds, for every processed filename, exactly one entry per chunk of
\* the file's content.
C16_OneEntryPerChunk ==
  \A t \in Tasks :
    ( /\ IngestEnded(t)
      /\ ret[t].state = "returned"
      /\ hist[t].failed = {} )
    => \A f \in Range(ret[t].names) :
         LET text == extract_text_from_path(f, disk[f]).val
         IN  /\ Cardinality(OfSource(index, f)) = NumChunks(text)
             /\ \A i \in 1..NumChunks(text) :
                  Cardinality({e \in OfSource(index, f) : e.text = <<text, i>>}) = 1

\* The pass of t is suspended in a lookup, a delete or the add.
InIndexCall(t) ==
  /\ op[t] \in {"upload", "lifespan"}
  /\ pc[t] \in {"connect", "getcoll", "rpc"}
  /\ call[t].method \in IndexCalls

\* The entries the pass of t added for source f.
PassEntries(t, f) ==
  IF Len(hist[t].added) = 0 THEN {}
  ELSE OfSource(Zip(hist[t].added[1].documents, hist[t].added[1].metadatas,
                    hist[t].added[1].ids), f)

\* Both passes processed f, returned, and none of their index calls failed.
BothSucceeded(t, u, f) ==
  /\ t # u
  /\ IngestEnded(t) /\ IngestEnded(u)
  /\ ret[t].state = "returned" /\ ret[u].state = "returned"
  /\ hist[t].failed = {} /\ hist[u].failed = {}
  /\ f \in Range(ret[t].names) /\ f \in Range(ret[u].names)

\* Both passes' entries for f are in the index.
Duplicates(t, u, f) ==
  /\ PassEntries(t, f) \subseteq index
  /\ PassEntries(u, f) \subseteq index

\* The entries the pass of t added for f are gone, those of u are there.
Missing(t, u, f) ==
  /\ PassEntries(t, f) \cap index = {}
  /\ PassEntries(u, f) \subseteq index

\* C12: ingestion passes are not serialized.  While a pass is suspended in a
\* lookup, a delete or the add, another upload can be accepted, and the
\* pending index call of another pass can complete.  Two passes for the same
\* filename that both returned successfully leave the entries of both in the
\* index (duplicates), or those of one of them deleted by the other (missing).
C12_NotSerialized ==
  \A t, u \in Tasks :
    /\ ( /\ t # u
         /\ InIndexCall(t)
         /\ pc[u] = "idle"
         /\ app = "serving"
         /\ started[u] < MaxRequests )
       => ENABLED StartUpload(u, 1)
    /\ ( /\ t # u
         /\ InIndexCall(t)
         /\ InIndexCall(u)
         /\ pc[u] = "rpc" )
       => ENABLED Rpc(u)
    /\ \A f \in FileNames :
         BothSucceeded(t, u, f)
         => Duplicates(t, u, f) \/ Missing(t, u, f) \/ Missing(u, t, f)

\* Duplicates: both passes returned successfully and the entries of both are
\* in the index.
C12_Witness ==
  \E t, u \in Tasks : \E f \in FileNames :
    /\ BothSucceeded(t, u, f)
    /\ PassEntries(t, f) # {} /\ PassEntries(u, f) # {}
    /\ PassEntries(t, f) \cap PassEntries(u, f) = {}
    /\ Duplicates(t, u, f)

\* Missing entries: both passes returned successfully, the file on disk is the
\* one the pass of t read, and the index holds only what the pass of u added
\* for another content.
C12_MissingEntries ==
  \E t, u \in Tasks : \E f \in FileNames :
    /\ BothSucceeded(t, u, f)
    /\ hist[t].scanned[f] = disk[f]
    /\ hist[u].scanned[f] # disk[f]
    /\ PassEntries(t, f) # {}
    /\ Missing(t, u, f)
    /\ OfSource(index, f) = PassEntries(u, f)

\* The dictionary is made of what JSON has: str keys, and None, int, str and
\* list values.
JsonNative(d) ==
  \A m \in d : m.key.type = "str" /\ m.value.type # "tuple"

\* The last call for the key was a set_cache that reached Redis, and its ttl
\* has not run out.
SetAndLive(k) ==
  /\ cache.put[k].called
  /\ cache.put[k].ok
  /\ cache.now < cache.put[k].at + cache.put[k].ttl

\* C11, as claimed: get_cache returns None for a key never set or deleted, and
\* after set_cache(k, v, ttl) reached Redis, a get_cache(k) that reaches Redis
\* before the ttl has run out returns a value equal to v, for every dictionary
\* v json.dumps accepts.
C11_RoundTrip ==
  \A k \in CacheKeys :
    cache.got.called /\ cache.got.key = k =>
      /\ ~cache.put[k].called => ~cache.got.hit
      /\ SetAndLive(k) /\ cache.got.ok
         => cache.got.hit /\ cache.got.value = cache.put[k].value

\* C11, amended: the same for every dictionary with str keys whose values are
\* None, int, str or lists; for any other dictionary get_cache returns some
\* dictionary, which need not be equal to v.
C11_RoundTripJsonNative ==
  \A k \in CacheKeys :
    cache.got.called /\ cache.got.key = k =>
      /\ ~cache.put[k].called => ~cache.got.hit
      /\ SetAndLive(k) /\ cache.got.ok
         => /\ cache.got.hit
            /\ JsonNative(cache.put[k].value)
               => cache.got.value = cache.put[k].value

\* A dictionary with a list in it was set a second ago and is read back.
C11_Witness ==
  \E k \in CacheKeys :
    /\ cache.got.called /\ cache.got.key = k
    /\ SetAndLive(k) /\ cache.got.ok
    /\ cache.put[k].at < cache.now
    /\ JsonNative(cache.put[k].value)
    /\ \E m \in cache.put[k].value : m.value = PyList
    /\ cache.got.value = cache.put[k].value

\* The text of every page whose extraction does not raise, in page order.
RECURSIVE ExtractableText(_)
ExtractableText(pages) ==
  IF Len(pages) = 0 THEN <<>>
  ELSE (IF Head(pages) \in {"", PageRaises} THEN <<>> ELSE <<Head(pages), "\n">>)
         \o ExtractableText(Tail(pages))

\* C14: extract_text_from_pdf of a PDF with a page whose extraction raises
\* returns without an exception the text of all the other pages, those before
\* and those after the failing one, and has closed the reader.
C14_FailingPageSkipped ==
  ( /\ pdf.at = "returned"
    /\ pdf.pages # NotAPdf
    /\ \E i \in 1..Len(pdf.pages) : pdf.pages[i] = PageRaises )
  => /\ ~pdf.raised
     /\ pdf.text = ExtractableText(pdf.pages)
     /\ ~pdf.open

====
